---- MODULE Spec2Model ----
(***************************************************************************)
(* Outfit generation engine of clos8-style-sense-ai: OutfitProvider        *)
(* (weekly generation, single-day regeneration, suggestion cache) and the  *)
(* parts of geminiService it calls.                                        *)
(*                                                                         *)
(* Time is counted in seconds: Date.now() is `now`, CACHE_DURATION is       *)
(* 86400 and the window of the request tracker is 60.                      *)
(* Text is a sequence of one-character strings, so that toLowerCase() and  *)
(* includes() are computed and not assumed.                                *)
(***************************************************************************)
EXTENDS Integers, Sequences, FiniteSets, TLC

\* ------------------------------------------------------------------ bounds
\* number of handler invocations (button presses) in one behaviour
MaxCalls == 2
\* most suggestions findMatchingItems is given
MaxSuggestions == 2
\* last second the clock reaches (36 hours)
MaxNow == 129600

\* --------------------------------------------------------------- constants
\* 24 * 60 * 60 * 1000 ms, in seconds
CACHE_DURATION == 86400
\* the latest time the suggestion source is asked at
MaxSourceNow == 60

DAYS_OF_WEEK ==
  <<"monday", "tuesday", "wednesday", "thursday", "friday", "saturday", "sunday">>

Days == {DAYS_OF_WEEK[i] : i \in 1..Len(DAYS_OF_WEEK)}

\* user ids of the accounts that can be signed in; NoUser is `user == null`
Owners == {"u1", "u2"}
NoUser == "null"

\* a missing value: null, undefined, an absent localStorage key
Null == "null"
\* what a step of the Outfit store answers
StoreReplies == {"ok", "error"}

\* -------------------------------------------------------------------- text
Range(s) == {s[i] : i \in 1..Len(s)}

RECURSIVE SelectSeqBy(_, _)
\* Array.prototype.filter, for a test that is given as a set of kept values
SelectSeqBy(s, keep) ==
  IF s = <<>> THEN <<>>
  ELSE IF Head(s) \in keep
       THEN <<Head(s)>> \o SelectSeqBy(Tail(s), keep)
       ELSE SelectSeqBy(Tail(s), keep)

UpperCaseLetters ==
  <<"A","B","C","D","E","F","G","H","I","J","K","L","M",
    "N","O","P","Q","R","S","T","U","V","W","X","Y","Z">>
LowerCaseLetters ==
  <<"a","b","c","d","e","f","g","h","i","j","k","l","m",
    "n","o","p","q","r","s","t","u","v","w","x","y","z">>

ToLowerChar(ch) ==
  IF \E i \in 1..26 : UpperCaseLetters[i] = ch
  THEN LowerCaseLetters[CHOOSE i \in 1..26 : UpperCaseLetters[i] = ch]
  ELSE ch

\* String.prototype.toLowerCase
ToLowerCase(s) == [i \in 1..Len(s) |-> ToLowerChar(s[i])]

\* String.prototype.includes
Includes(hay, needle) ==
  \E i \in 0..(Len(hay) - Len(needle)) :
     \A j \in 1..Len(needle) : hay[i + j] = needle[j]

T_cat1 == <<"c","a","t","-","1">>
T_cat2 == <<"c","a","t","-","2">>
T_cat3 == <<"c","a","t","-","3">>
T_cat4 == <<"c","a","t","-","4">>
T_cat5 == <<"c","a","t","-","5">>
T_cat6 == <<"c","a","t","-","6">>
T_TShirt == <<"T","-","S","h","i","r","t">>
T_Shirt == <<"S","h","i","r","t">>
T_Sweater == <<"S","w","e","a","t","e","r">>
T_Jeans == <<"J","e","a","n","s">>
T_Pants == <<"P","a","n","t","s">>
T_Shorts == <<"S","h","o","r","t","s">>
T_unknown == <<"u","n","k","n","o","w","n">>
T_black == <<"b","l","a","c","k">>
T_white == <<"w","h","i","t","e">>
T_blue == <<"b","l","u","e">>
T_beige == <<"b","e","i","g","e">>
T_gray == <<"g","r","a","y">>
T_FFFFFF == <<"#","F","F","F","F","F","F">>
T_0000FF == <<"#","0","0","0","0","F","F">>
T_000000 == <<"#","0","0","0","0","0","0">>

\* ---------------------------------------------------------------- wardrobe
\* ClothingItem as geminiService reads it: id, type, categoryId, color
ItemU1 == [id |-> "U1", type |-> "upper", categoryId |-> T_cat1, color |-> T_0000FF]
ItemB1 == [id |-> "B1", type |-> "bottom", categoryId |-> T_cat4, color |-> T_0000FF]

\* the items of a second owner
ItemU2 == [id |-> "U2", type |-> "upper", categoryId |-> T_cat1, color |-> T_0000FF]
ItemB2 == [id |-> "B2", type |-> "bottom", categoryId |-> T_cat4, color |-> T_0000FF]

\* the wardrobes a signed-in user can have loaded (clothingItems)
Wardrobes == {<<>>, <<ItemU1>>, <<ItemB1>>, <<ItemU1, ItemB1>>}

\* WardrobeContext.getItemsByType
getItemsByTypeAny(items, type) == items
getItemsByType(items, type) ==
  SelectSeqBy(items, {it \in Range(items) : it.type = type})

\* ------------------------------------------------------------- suggestions
\* a field that is undefined, and a field that holds a value that is no string
Absent == <<"<undefined>">>
NotAString == <<"<number>">>

Truthy(v) == v # Absent /\ v # <<>>
IsString(v) == v # Absent /\ v # NotAString

SuggestionKeys == {"type", "category", "color"}

\* SuggestionItem {type, category, color?}
Suggestion(type, category, color) ==
  [type |-> type, category |-> category, color |-> color]

\* JSON.stringify(suggestion): the fields that are defined, in a text
JSONstringify(sg) ==
  [json |-> [k \in {f \in SuggestionKeys :
                       IF f = "type" THEN sg[f] # Null ELSE sg[f] # Absent} |-> sg[k]]]

\* JSON.parse(str): the object of the text; a field that is not there reads undefined
JSONparse(str) ==
  [k \in SuggestionKeys |->
     IF k \in DOMAIN str.json THEN str.json[k]
     ELSE IF k = "type" THEN Null ELSE Absent]

\* response.suggestions.map(suggestion => JSON.stringify(suggestion))
StringifyAll(suggestions) ==
  [i \in 1..Len(suggestions) |-> JSONstringify(suggestions[i])]

\* suggestionStrings.map(str => JSON.parse(str))
ParseAll(suggestionStrings) ==
  [i \in 1..Len(suggestionStrings) |-> JSONparse(suggestionStrings[i])]

\* geminiService.getColorName
colorMap ==
  [hex \in {T_000000, T_FFFFFF, T_0000FF} |->
     IF hex = T_000000 THEN T_black
     ELSE IF hex = T_FFFFFF THEN T_white
     ELSE T_blue]

HexUpperChar(ch) ==
  IF \E i \in 1..26 : LowerCaseLetters[i] = ch
  THEN UpperCaseLetters[CHOOSE i \in 1..26 : LowerCaseLetters[i] = ch]
  ELSE ch

getColorName(hexColor) ==
  IF hexColor = <<>> \/ hexColor[1] # "#"
  THEN ToLowerCase(hexColor)
  ELSE LET normalizedHex == [i \in 1..Len(hexColor) |-> HexUpperChar(hexColor[i])]
       IN  IF normalizedHex \in DOMAIN colorMap
           THEN colorMap[normalizedHex]
           ELSE normalizedHex

\* geminiService.getCategoryNameFromId, and the categoryMapping that
\* createMappings builds from the loaded categories (the same six)
categoryMap ==
  [id \in {T_cat1, T_cat2, T_cat3, T_cat4, T_cat5, T_cat6} |->
     IF id = T_cat1 THEN T_TShirt
     ELSE IF id = T_cat2 THEN T_Shirt
     ELSE IF id = T_cat3 THEN T_Sweater
     ELSE IF id = T_cat4 THEN T_Jeans
     ELSE IF id = T_cat5 THEN T_Pants
     ELSE T_Shorts]

getCategoryNameFromId(categoryId) ==
  IF categoryId \in DOMAIN categoryMap THEN categoryMap[categoryId] ELSE categoryId

categoryMapping(categoryId) ==
  IF categoryId \in DOMAIN categoryMap THEN categoryMap[categoryId] ELSE T_unknown

mockGeminiResponseWithoutBlue(item, colorName, category) ==
  IF item.type = "upper"
  THEN IF colorName = T_black \/ colorName = T_white
       THEN {<<Suggestion("bottom", cat, col)>> :
               cat \in {T_Jeans, T_Pants}, col \in {T_blue, T_black, T_beige, T_gray}}
       ELSE {<<Suggestion("bottom", T_Pants, T_black)>>}
  ELSE IF Includes(ToLowerCase(category), ToLowerCase(T_Jeans))
       THEN {<<Suggestion("upper", T_TShirt, T_white)>>}
       ELSE IF Includes(ToLowerCase(category), ToLowerCase(T_Pants))
       THEN {<<Suggestion("upper", T_Sweater, T_black)>>}
       ELSE {<<Suggestion("upper", T_TShirt,
                          IF colorName = T_black THEN T_white ELSE T_black)>>}

\* geminiService.mockGeminiResponse: the responses it can resolve with
\* (Math.random() picks the category and the color of a black or white top)
mockGeminiResponse(item, colorName, category) ==
  IF item.type = "upper"
  THEN IF colorName = T_black \/ colorName = T_white
       THEN {<<Suggestion("bottom", cat, col)>> :
               cat \in {T_Jeans, T_Pants}, col \in {T_blue, T_black, T_beige, T_gray}}
       ELSE IF colorName = T_blue
       THEN {<<Suggestion("bottom", T_Jeans, T_blue)>>}
       ELSE {<<Suggestion("bottom", T_Pants, T_black)>>}
  ELSE IF Includes(ToLowerCase(category), ToLowerCase(T_Jeans))
       THEN {<<Suggestion("upper", T_TShirt, T_white)>>}
       ELSE IF Includes(ToLowerCase(category), ToLowerCase(T_Pants))
       THEN {<<Suggestion("upper", T_Sweater, T_black)>>}
       ELSE {<<Suggestion("upper", T_TShirt,
                          IF colorName = T_black THEN T_white ELSE T_black)>>}

\* the `suggestions` arrays a reply of the external endpoint can carry for a
\* seed: none, one that names a category only, one whose category is no string
ExternalReplies(item) ==
  LET other == IF item.type = "upper" THEN "bottom" ELSE "upper"
  IN  { <<>>,
        <<Suggestion(other, IF other = "bottom" THEN T_Jeans ELSE T_TShirt, Absent)>>,
        <<Suggestion(other, NotAString, Absent)>> }

\* ---------------------------------------------------------- request tracker
\* requestTracker: `return this.requestCount < 60`
MAX_REQUESTS == 60
\* 60000 ms, in seconds: oneMinuteAgo and the delay of the reset timer
RATE_WINDOW == 60

\* resetTimer is null
NoTimer == -1

\* requestTracker as the module is loaded
NewTracker == [lastRequestTime |-> 0, requestCount |-> 0, resetTimer |-> NoTimer]

\* requestTracker.canMakeRequest: the tracker it leaves, and its answer
TrackerAfterCheck(tr, t) ==
  IF tr.lastRequestTime < t - RATE_WINDOW THEN [tr EXCEPT !.requestCount = 0] ELSE tr

canMakeRequestAtTheLimit(tr, t) == TrackerAfterCheck(tr, t).requestCount <= MAX_REQUESTS
canMakeRequest(tr, t) == TrackerAfterCheck(tr, t).requestCount < MAX_REQUESTS

\* requestTracker.trackRequest; resetTimer holds the time the timer is due
trackRequest(tr, t) ==
  [lastRequestTime |-> t,
   requestCount |-> tr.requestCount + 1,
   resetTimer |-> IF tr.resetTimer = NoTimer THEN t + RATE_WINDOW ELSE tr.resetTimer]

\* the callback of the reset timer
TimerCallback(tr) == [tr EXCEPT !.requestCount = 0, !.resetTimer = NoTimer]

\* the external calls of the last RATE_WINDOW seconds: how many at which time
NoExternalCalls == [t \in {} |-> 0]

RecordExternalCall(log, t) ==
  [x \in DOMAIN log \cup {t} |->
     IF x \in DOMAIN log THEN log[x] + (IF x = t THEN 1 ELSE 0) ELSE 1]

ForgetExternalCalls(log, t) ==
  [x \in {y \in DOMAIN log : y > t - RATE_WINDOW} |-> log[x]]

RECURSIVE SumOfCalls(_, _)
SumOfCalls(log, times) ==
  IF times = {} THEN 0
  ELSE LET x == CHOOSE y \in times : TRUE
       IN  log[x] + SumOfCalls(log, times \ {x})

\* -------------------------------------------------------- suggestion source
\* what happens to the fetch of getOutfitSuggestions: it rejects, it answers
\* with a status that is not ok, or with a body that carries no candidate
\* text, a text without a JSON object, a JSON object that does not parse or
\* one without a suggestions array; or it answers with a suggestions array
FailureKinds ==
  {"network_error", "status_429", "status_404", "status_500",
   "no_candidates", "no_json", "bad_json", "no_array"}

EndpointReply(kind, suggestions) == [kind |-> kind, suggestions |-> suggestions]
NoReply == EndpointReply("none", <<>>)

EndpointReplies(item) ==
  {EndpointReply(k, <<>>) : k \in FailureKinds}
    \cup {EndpointReply("ok", a) : a \in ExternalReplies(item)}

\* the promise of getOutfitSuggestions resolves with a MatchResponse, or rejects
Resolved(suggestions) == [settled |-> "resolved", suggestions |-> suggestions]
Rejected == [settled |-> "rejected", suggestions |-> <<>>]

\* getOutfitSuggestions up to its first await: the rate limit is checked,
\* the key is read, the request is tracked; the tracker it leaves and the
\* way it goes on
RefusedIsTracked(tr, t) == trackRequest(TrackerAfterCheck(tr, t), t)
RefusedIsNotTracked(tr, t) == TrackerAfterCheck(tr, t)

SourceEntry(tr, t, key) ==
  IF ~canMakeRequest(tr, t)
  THEN [tracker |-> RefusedIsNotTracked(tr, t), path |-> "rate_limited"]
  ELSE IF ~key
  THEN [tracker |-> TrackerAfterCheck(tr, t), path |-> "no_key"]
  ELSE [tracker |-> trackRequest(TrackerAfterCheck(tr, t), t), path |-> "fetch"]

\* return mockGeminiResponse(item, getColorName(item.color), categoryMapping[...])
MockResults(item) ==
  {Resolved(m) : m \in mockGeminiResponse(item, getColorName(item.color),
                                          categoryMapping(item.categoryId))}

\* the outer catch of getOutfitSuggestions
OuterCatchRethrows(item) == {Rejected}
OuterCatch(item) == MockResults(item)

\* what getOutfitSuggestions settles with after the reply of the endpoint
\* (on the paths without a fetch there is no reply)
SourceSettles(item, path, reply) ==
  IF path = "rate_limited" THEN OuterCatch(item)
  ELSE IF path = "no_key" THEN MockResults(item)
  ELSE IF reply.kind = "ok" THEN {Resolved(reply.suggestions)}
  ELSE OuterCatch(item)

\* geminiService.getOutfitSuggestions: what the promise can settle with
getOutfitSuggestions(item, path) ==
  IF path = "fetch"
  THEN UNION {SourceSettles(item, path, reply) : reply \in EndpointReplies(item)}
  ELSE SourceSettles(item, path, NoReply)

\* ------------------------------------------------------------------ matcher
ItemMatchesAnyType(item, suggestion) ==
  /\ IF Truthy(suggestion.category)
     THEN \/ Includes(ToLowerCase(item.categoryId), ToLowerCase(suggestion.category))
          \/ Includes(ToLowerCase(getCategoryNameFromId(item.categoryId)),
                      ToLowerCase(suggestion.category))
     ELSE TRUE
  /\ IF Truthy(suggestion.color)
     THEN Includes(ToLowerCase(item.color), ToLowerCase(suggestion.color))
     ELSE TRUE

\* the filter callback of findMatchingItems
ItemMatches(item, suggestion) ==
  /\ item.type = suggestion.type
  /\ IF Truthy(suggestion.category)
     THEN \/ Includes(ToLowerCase(item.categoryId), ToLowerCase(suggestion.category))
          \/ Includes(ToLowerCase(getCategoryNameFromId(item.categoryId)),
                      ToLowerCase(suggestion.category))
     ELSE TRUE
  /\ IF Truthy(suggestion.color)
     THEN Includes(ToLowerCase(item.color), ToLowerCase(suggestion.color))
     ELSE TRUE

\* the filter callback throws a TypeError: toLowerCase of a value that is no string
FindMatchingItemsThrows(suggestions, availableItems) ==
  \E i \in 1..Len(suggestions) : \E j \in 1..Len(availableItems) :
     /\ availableItems[j].type = suggestions[i].type
     /\ \/ Truthy(suggestions[i].category) /\ ~IsString(suggestions[i].category)
        \/ Truthy(suggestions[i].color) /\ ~IsString(suggestions[i].color)

RECURSIVE findMatchingItems(_, _)
\* geminiService.findMatchingItems: the arrays it can return
\* (Math.random() picks among the items that match a suggestion)
findMatchingItems(suggestions, availableItems) ==
  IF suggestions = <<>> THEN {<<>>}
  ELSE LET suggestion == Head(suggestions)
           matchingItems ==
             SelectSeqBy(availableItems,
                         {it \in Range(availableItems) : ItemMatches(it, suggestion)})
           rest == findMatchingItems(Tail(suggestions), availableItems)
       IN  IF Len(matchingItems) > 0
           THEN {<<matchingItems[k]>> \o r : k \in 1..Len(matchingItems), r \in rest}
           ELSE rest

\* ---------------------------------------------------------- suggestion cache
\* OutfitSuggestionCache {itemId, suggestions, timestamp}
CacheEntry(itemId, suggestions, timestamp) ==
  [itemId |-> itemId, suggestions |-> suggestions, timestamp |-> timestamp]

\* the result of checkSuggestionCache: null, or the suggestions of the entry
CacheMiss == [hit |-> FALSE, suggestions |-> <<>>]
CacheHit(suggestions) == [hit |-> TRUE, suggestions |-> suggestions]

\* the test of both expiry checks: (now - timestamp) < CACHE_DURATION
IsFreshAtTheLimit(timestamp, t) == (t - timestamp) <= CACHE_DURATION
IsFresh(timestamp, t) == (t - timestamp) < CACHE_DURATION

\* OutfitProvider.checkSuggestionCache over the suggestionCache of the render
checkSuggestionCache(cache, itemId, t) ==
  IF \E i \in 1..Len(cache) : cache[i].itemId = itemId
  THEN LET cacheEntry == cache[CHOOSE i \in 1..Len(cache) :
                                 /\ cache[i].itemId = itemId
                                 /\ \A j \in 1..(i - 1) : cache[j].itemId # itemId]
       IN  IF IsFresh(cacheEntry.timestamp, t)
           THEN CacheHit(cacheEntry.suggestions)
           ELSE CacheMiss
  ELSE CacheMiss

\* the updater of addToSuggestionCache
addToSuggestionCacheKeepsOld(prevCache, itemId, suggestions, t) ==
  prevCache \o <<CacheEntry(itemId, suggestions, t)>>
addToSuggestionCache(prevCache, itemId, suggestions, t) ==
  SelectSeqBy(prevCache, {e \in Range(prevCache) : e.itemId # itemId})
    \o <<CacheEntry(itemId, suggestions, t)>>

\* a localStorage key: absent, or the array stored under it
NoItem == [present |-> FALSE, value |-> <<>>]
StoredItem(value) == [present |-> TRUE, value |-> value]

\* the effect that saves the cache: if (user && suggestionCache.length > 0)
SaveCacheEffect(storage, u, cache) ==
  IF u # NoUser /\ Len(cache) > 0
  THEN [storage EXCEPT ![u] = StoredItem(cache)]
  ELSE storage

\* -------------------------------------------------------------------- state
VARIABLES
  now,                  \* Date.now(), in seconds
  user,                 \* useAuth().user: the owner signed in, or NoUser
  clothingItems,        \* useWardrobe().clothingItems of that owner
  store,                \* the rows of the `outfits` table
  weeklyOutfits,        \* useState: the in-memory weekly plan
  generationInProgress, \* useRef: the in-progress guard
  isGenerating,         \* useState: the flag the pages read
  suggestionCache,      \* useState: the suggestion cache
  localStorage,         \* localStorage["outfit-suggestions-" + owner]
  pendingLoads,         \* owners whose loadSavedOutfits select is in flight
  apiKey,               \* localStorage["gemini-api-key"] holds a key
  calls,                \* the invocations of the two handlers
  requestTracker,       \* geminiService.requestTracker
  externalCalls,        \* the fetches of the last RATE_WINDOW seconds, by time
  sourceCalls,          \* invocations of getOutfitSuggestions by other callers
  lastWrite,            \* the last entry addToSuggestionCache wrote for an item
  matcherRun,           \* an application of findMatchingItems
  peer                  \* a second OutfitProvider of the owner, in another tab

vars ==
  <<now, user, clothingItems, store, weeklyOutfits, generationInProgress,
    isGenerating, suggestionCache, localStorage, pendingLoads, apiKey, calls,
    requestTracker, externalCalls, sourceCalls, lastWrite, matcherRun, peer>>

\* the state outside the provider
sourceVars == <<requestTracker, externalCalls, sourceCalls>>

\* the state of the provider, and what the provider reads of its hooks
providerVars ==
  <<user, clothingItems, store, weeklyOutfits, generationInProgress,
    isGenerating, suggestionCache, localStorage, pendingLoads, calls, lastWrite>>

CallIds == 1..MaxCalls

NoItemYet == [id |-> "none", type |-> "none", categoryId |-> <<>>, color |-> <<>>]

\* an invocation that has not been made yet
IdleCall ==
  [kind |-> "none", pc |-> "idle", user |-> NoUser, day |-> Null,
   cache |-> <<>>, upperItems |-> <<>>, bottomItems |-> <<>>,
   dayIdx |-> 0, startWithUpper |-> FALSE, selectedItem |-> NoItemYet,
   newOutfits |-> <<>>, deleteError |-> FALSE, insertError |-> FALSE,
   toasts |-> <<>>, sourcePath |-> "none"]

\* an invocation of getOutfitSuggestions by a caller other than the provider:
\* the record of the latest one is kept
SourceCallIds == {"s1"}

NoResult == [settled |-> "none", suggestions |-> <<>>]

IdleSourceCall ==
  [pc |-> "idle", item |-> NoItemYet, path |-> "none",
   reply |-> NoReply, result |-> NoResult, settledAt |-> 0]

\* the ids of the items of the wardrobes
ItemIds == {"U1", "B1", "U2", "B2"}

\* the last write for an item: the entry, and who was signed in then;
\* NoWrite when nothing was written for the item
WriteOf(entry, signedIn) == [entry |-> entry, signedIn |-> signedIn]
NoWrite ==
  WriteOf([itemId |-> "none", suggestions |-> <<>>, timestamp |-> -1], NoUser)

\* the second provider has its own guard; it has not generated anything
IdlePeer ==
  [pc |-> "idle", generationInProgress |-> FALSE, user |-> NoUser, newOutfits |-> <<>>]

\* findMatchingItems is not being applied
NoMatcherRun ==
  [pc |-> "idle", suggestions |-> <<>>, availableItems |-> <<>>, result |-> <<>>]

\* outfits table row, as the select and the insert return it
StoredRow(id, upper, bottom, day, owner) ==
  [id |-> id, upper |-> upper, bottom |-> bottom, day |-> day, user_id |-> owner]

\* what the outfits table can hold when the provider is mounted: nothing, or
\* the rows earlier sessions of the two owners left
InitialStores ==
  { {},
    { StoredRow(<<0, 1>>, ItemU1, ItemB1, "monday", "u1"),
      StoredRow(<<0, 2>>, ItemU1, ItemB1, "wednesday", "u1"),
      StoredRow(<<0, 3>>, ItemU1, ItemB1, "monday", "u2") } }

\* .order("day", { ascending: true }) orders the day labels as text
DaysAscending ==
  <<"friday", "monday", "saturday", "sunday", "thursday", "tuesday", "wednesday">>

RECURSIVE Enumerations(_)
Enumerations(S) ==
  IF S = {} THEN {<<>>}
  ELSE UNION {{<<x>> \o r : r \in Enumerations(S \ {x})} : x \in S}

RECURSIVE SelectOrderedByDay(_, _)
\* the arrays a select of these rows, ordered by day, can return
SelectOrderedByDay(rows, days) ==
  IF days = <<>> THEN {<<>>}
  ELSE {a \o b : a \in Enumerations({r \in rows : r.day = Head(days)}),
                 b \in SelectOrderedByDay(rows, Tail(days))}

\* the provider is mounted for an owner who is signed in: the wardrobe of
\* that owner is loaded, the select of loadSavedOutfits is in flight, nothing
\* is cached or running
ProviderInit ==
  /\ now = 0
  /\ user = "u1"
  /\ clothingItems \in Wardrobes
  /\ store \in InitialStores
  /\ weeklyOutfits = <<>>
  /\ generationInProgress = FALSE
  /\ isGenerating = FALSE
  /\ suggestionCache = <<>>
  /\ localStorage = [o \in Owners |-> NoItem]
  /\ pendingLoads = {user}
  /\ apiKey = FALSE
  /\ calls = [c \in CallIds |-> IdleCall]
  /\ lastWrite = [id \in ItemIds |-> NoWrite]

\* geminiService is loaded: nothing was requested yet
SourceInit ==
  /\ requestTracker = NewTracker
  /\ externalCalls = NoExternalCalls
  /\ sourceCalls = [s \in SourceCallIds |-> IdleSourceCall]

Init ==
  /\ ProviderInit
  /\ SourceInit
  /\ matcherRun = NoMatcherRun
  /\ peer = IdlePeer

\* a handler is between two awaits that resolve without a macrotask: no
\* event handler, timer or network reply runs before it continues
MicrotaskPending == \E c \in CallIds : calls[c].pc = "day"

\* the invocations are numbered in the order they are made
IsNextCall(c) ==
  /\ calls[c].pc = "idle"
  /\ \A b \in CallIds : b < c => calls[b].pc # "idle"

\* ------------------------------------------------------------------ outfits
\* the object generateOutfitForDay returns
OutfitSlotsSwapped(upper, bottom, day, owner) ==
  [upper |-> bottom, bottom |-> upper, day |-> day, user_id |-> owner]
Outfit(upper, bottom, day, owner) ==
  [upper |-> upper, bottom |-> bottom, day |-> day, user_id |-> owner]

\* the row the table returns for an inserted outfit: the outfit and its new id
Row(id, outfit) ==
  StoredRow(id, outfit.upper, outfit.bottom, outfit.day, outfit.user_id)

\* insert(newOutfits).select(): the ids are fresh, here the invocation and
\* the position in the batch
InsertedRows(c, newOutfits) ==
  [k \in 1..Len(newOutfits) |-> Row(<<c, k>>, newOutfits[k])]

\* the catch of generateOutfitForDay: a random upper with a random bottom
RandomPairing(day, upperItems, bottomItems, owner) ==
  {Outfit(upperItems[i], bottomItems[j], day, owner) :
     i \in 1..Len(upperItems), j \in 1..Len(bottomItems)}

\* generateOutfitForDay after the suggestions are there: the outfits it can
\* return (matched item, random complement, or the random pair of the catch)
OutfitsFor(day, startWithUpper, selectedItem, suggestionStrings, upperItems, bottomItems, owner) ==
  LET suggestions == ParseAll(suggestionStrings)
      availableItems == IF startWithUpper THEN bottomItems ELSE upperItems
  IN  IF FindMatchingItemsThrows(suggestions, availableItems)
      THEN RandomPairing(day, upperItems, bottomItems, owner)
      ELSE UNION {
             IF Len(matchedItems) > 0
             THEN {Outfit(IF startWithUpper THEN selectedItem ELSE matchedItems[1],
                          IF startWithUpper THEN matchedItems[1] ELSE selectedItem,
                          day, owner)}
             ELSE {Outfit(IF startWithUpper THEN selectedItem ELSE availableItems[k],
                          IF startWithUpper THEN availableItems[k] ELSE selectedItem,
                          day, owner) : k \in 1..Len(availableItems)}
             : matchedItems \in findMatchingItems(suggestions, availableItems)}

\* --------------------------------------------------------------- the toasts
ToastAuthRequired == "Authentication required"
ToastInProgress == "Generation in progress"
ToastNoItems == "Not enough clothing items"
ToastIncomplete == "Incomplete wardrobe"
ToastGenerating == "Generating outfits..."
ToastWeeklyDone == "Weekly outfits generated!"
ToastWeeklyError == "Error generating outfits"
ToastDayDone == "Outfit regenerated"
ToastDayError == "Error regenerating outfit"

\* ------------------------------------------------------------- the handlers
\* the `finally` of both handlers
ReleaseGuardKeepsRef ==
  /\ isGenerating' = FALSE
  /\ generationInProgress' = generationInProgress
ReleaseGuard ==
  /\ isGenerating' = FALSE
  /\ generationInProgress' = FALSE

\* the test of generateWeeklyOutfits: if (generationInProgress.current)
WeeklyGuardNeverRejects == FALSE
WeeklyGuardRejects == generationInProgress

\* the test of regenerateOutfitForDay: if (generationInProgress.current)
RegenGuardNeverRejects == FALSE
RegenGuardRejects == generationInProgress

\* the toast of the catch of a handler
FailureToastSaysDone(kind) ==
  IF kind = "weekly" THEN ToastWeeklyDone ELSE ToastDayDone
FailureToast(kind) ==
  IF kind = "weekly" THEN ToastWeeklyError ELSE ToastDayError

\* generateWeeklyOutfits, from the call to its first await or its return
generateWeeklyOutfits(c) ==
  /\ IsNextCall(c)
  /\ ~MicrotaskPending
  /\ LET upperItems == getItemsByType(clothingItems, "upper")
         bottomItems == getItemsByType(clothingItems, "bottom")
         returned(title) ==
           [calls EXCEPT ![c] = [@ EXCEPT !.kind = "weekly", !.pc = "done",
                                          !.user = user,
                                          !.toasts = <<title>>]]
     IN  IF user = NoUser
         THEN /\ calls' = returned(ToastAuthRequired)
              /\ UNCHANGED <<generationInProgress, isGenerating>>
         ELSE IF WeeklyGuardRejects
         THEN /\ calls' = returned(ToastInProgress)
              /\ UNCHANGED <<generationInProgress, isGenerating>>
         ELSE IF Len(clothingItems) = 0
         THEN /\ calls' = returned(ToastNoItems)
              /\ ReleaseGuard
         ELSE IF Len(upperItems) = 0 \/ Len(bottomItems) = 0
         THEN /\ calls' = returned(ToastIncomplete)
              /\ ReleaseGuard
         ELSE /\ generationInProgress' = TRUE
              /\ isGenerating' = TRUE
              /\ calls' = [calls EXCEPT ![c] =
                   [@ EXCEPT !.kind = "weekly", !.pc = "day", !.user = user,
                             !.cache = suggestionCache,
                             !.upperItems = upperItems,
                             !.bottomItems = bottomItems,
                             !.dayIdx = 1,
                             !.toasts = <<ToastGenerating>>]]
  /\ UNCHANGED <<now, user, clothingItems, store, weeklyOutfits,
                 suggestionCache, localStorage, pendingLoads, apiKey>>
  /\ UNCHANGED <<sourceVars, lastWrite, matcherRun, peer>>

\* regenerateOutfitForDay(day), from the call to its first await or its return
regenerateOutfitForDay(c, day) ==
  /\ IsNextCall(c)
  /\ ~MicrotaskPending
  /\ LET upperItems == getItemsByType(clothingItems, "upper")
         bottomItems == getItemsByType(clothingItems, "bottom")
         returned(title) ==
           [calls EXCEPT ![c] = [@ EXCEPT !.kind = "day", !.pc = "done",
                                          !.user = user, !.day = day,
                                          !.toasts = <<title>>]]
     IN  IF user = NoUser
         THEN /\ calls' = returned(ToastAuthRequired)
              /\ UNCHANGED <<generationInProgress, isGenerating>>
         ELSE IF RegenGuardRejects
         THEN /\ calls' = returned(ToastInProgress)
              /\ UNCHANGED <<generationInProgress, isGenerating>>
         ELSE IF Len(upperItems) = 0 \/ Len(bottomItems) = 0
         THEN /\ calls' = returned(ToastIncomplete)
              /\ ReleaseGuard
         ELSE /\ generationInProgress' = TRUE
              /\ isGenerating' = TRUE
              /\ calls' = [calls EXCEPT ![c] =
                   [@ EXCEPT !.kind = "day", !.pc = "day", !.user = user,
                             !.day = day,
                             !.cache = suggestionCache,
                             !.upperItems = upperItems,
                             !.bottomItems = bottomItems,
                             !.dayIdx = 1]]
  /\ UNCHANGED <<now, user, clothingItems, store, weeklyOutfits,
                 suggestionCache, localStorage, pendingLoads, apiKey>>
  /\ UNCHANGED <<sourceVars, lastWrite, matcherRun, peer>>

CurrentDayOfFirstIteration(c) ==
  IF calls[c].kind = "weekly" THEN DAYS_OF_WEEK[1] ELSE calls[c].day

\* the day the invocation is generating
CurrentDay(c) ==
  IF calls[c].kind = "weekly" THEN DAYS_OF_WEEK[calls[c].dayIdx] ELSE calls[c].day

AfterOutfitEndsLoop(c, outfit) ==
  [calls[c] EXCEPT
     !.newOutfits = IF calls[c].kind = "weekly" THEN Append(@, outfit) ELSE <<outfit>>,
     !.selectedItem = NoItemYet,
     !.startWithUpper = FALSE,
     !.sourcePath = "none",
     !.pc = "delete"]

\* the handler takes the outfit generateOutfitForDay returned: the weekly loop
\* pushes it and goes to the next day, or to the delete after the last day;
\* the regeneration goes to its delete
AfterOutfit(c, outfit) ==
  IF calls[c].kind = "weekly"
  THEN [calls[c] EXCEPT
          !.newOutfits = Append(@, outfit),
          !.selectedItem = NoItemYet,
          !.startWithUpper = FALSE,
          !.sourcePath = "none",
          !.dayIdx = IF @ < Len(DAYS_OF_WEEK) THEN @ + 1 ELSE @,
          !.pc = IF calls[c].dayIdx < Len(DAYS_OF_WEEK) THEN "day" ELSE "delete"]
  ELSE [calls[c] EXCEPT
          !.newOutfits = <<outfit>>,
          !.selectedItem = NoItemYet,
          !.startWithUpper = FALSE,
          !.sourcePath = "none",
          !.pc = "delete"]

\* generateOutfitForDay up to the cache: the seed is drawn, the cache of the
\* render the handler was created in is read; a hit goes on to the matcher
\* at once, a miss awaits getOutfitSuggestions
GenerateOutfitForDay(c) ==
  /\ calls[c].pc = "day"
  /\ \E startWithUpper \in BOOLEAN :
       LET items == IF startWithUpper THEN calls[c].upperItems ELSE calls[c].bottomItems
       IN  \E randomIndex \in 1..Len(items) :
             LET selectedItem == items[randomIndex]
                 cachedSuggestions ==
                   checkSuggestionCache(calls[c].cache, selectedItem.id, now)
             IN  IF cachedSuggestions.hit
                 THEN \E outfit \in OutfitsFor(CurrentDay(c), startWithUpper,
                                               selectedItem,
                                               cachedSuggestions.suggestions,
                                               calls[c].upperItems,
                                               calls[c].bottomItems,
                                               calls[c].user) :
                        /\ calls' = [calls EXCEPT ![c] = AfterOutfit(c, outfit)]
                        /\ UNCHANGED <<requestTracker, externalCalls>>
                 ELSE LET entry == SourceEntry(requestTracker, now, apiKey)
                      IN  /\ calls' = [calls EXCEPT ![c] =
                                [@ EXCEPT !.pc = "suggest",
                                          !.startWithUpper = startWithUpper,
                                          !.selectedItem = selectedItem,
                                          !.sourcePath = entry.path]]
                          /\ requestTracker' = entry.tracker
                          /\ externalCalls' =
                               IF entry.path = "fetch"
                               THEN RecordExternalCall(externalCalls, now)
                               ELSE externalCalls
  /\ UNCHANGED <<now, user, clothingItems, store, weeklyOutfits,
                 generationInProgress, isGenerating, suggestionCache,
                 localStorage, pendingLoads, apiKey>>
  /\ UNCHANGED <<sourceCalls, lastWrite, matcherRun, peer>>

\* getOutfitSuggestions resolves: getSuggestions writes the suggestions to
\* the cache (and the effect saves the cache), generateOutfitForDay matches
SuggestionsReturn(c) ==
  /\ calls[c].pc = "suggest"
  /\ ~MicrotaskPending
  /\ \E response \in getOutfitSuggestions(calls[c].selectedItem, calls[c].sourcePath) :
       IF response.settled = "rejected"
       THEN /\ \E outfit \in RandomPairing(CurrentDay(c), calls[c].upperItems,
                                           calls[c].bottomItems, calls[c].user) :
                 calls' = [calls EXCEPT ![c] = AfterOutfit(c, outfit)]
            /\ UNCHANGED <<suggestionCache, localStorage, lastWrite>>
       ELSE LET suggestionStrings == StringifyAll(response.suggestions)
                newCache == addToSuggestionCache(suggestionCache,
                                                 calls[c].selectedItem.id,
                                                 suggestionStrings, now)
            IN  /\ suggestionCache' = newCache
                /\ localStorage' = SaveCacheEffect(localStorage, user, newCache)
                /\ lastWrite' = [lastWrite EXCEPT ![calls[c].selectedItem.id] =
                                   WriteOf(CacheEntry(calls[c].selectedItem.id,
                                                      suggestionStrings, now),
                                           user)]
                /\ \E outfit \in OutfitsFor(CurrentDay(c), calls[c].startWithUpper,
                                            calls[c].selectedItem, suggestionStrings,
                                            calls[c].upperItems, calls[c].bottomItems,
                                            calls[c].user) :
                     calls' = [calls EXCEPT ![c] = AfterOutfit(c, outfit)]
  /\ UNCHANGED <<now, user, clothingItems, store, weeklyOutfits,
                 generationInProgress, isGenerating, pendingLoads, apiKey>>
  /\ UNCHANGED <<sourceVars, matcherRun, peer>>

\* the rows the delete of an invocation leaves: .delete().eq("user_id", user.id),
\* and .eq("day", day) for a regeneration
RowsAfterDeleteOfOwner(c, rows) ==
  {r \in rows : r.user_id # calls[c].user}
RowsAfterDeleteOfNothing(c, rows) == rows
RowsAfterDelete(c, rows) ==
  {r \in rows : ~( r.user_id = calls[c].user
                    /\ (calls[c].kind = "day" => r.day = calls[c].day) )}

\* the outfits table answers the delete; an error goes to catch and finally
DeleteReturn(c) ==
  /\ calls[c].pc = "delete"
  /\ ~MicrotaskPending
  /\ \E reply \in StoreReplies :
       IF reply = "error"
       THEN /\ calls' = [calls EXCEPT ![c] =
                 [@ EXCEPT !.pc = "done", !.deleteError = TRUE,
                           !.toasts = Append(@, FailureToast(calls[c].kind))]]
            /\ ReleaseGuard
            /\ UNCHANGED store
       ELSE /\ store' = RowsAfterDelete(c, store)
            /\ calls' = [calls EXCEPT ![c] = [@ EXCEPT !.pc = "insert"]]
            /\ UNCHANGED <<generationInProgress, isGenerating>>
  /\ UNCHANGED <<now, user, clothingItems, weeklyOutfits, suggestionCache,
                 localStorage, pendingLoads, apiKey>>
  /\ UNCHANGED <<sourceVars, lastWrite, matcherRun, peer>>

\* Array.prototype.filter(outfit => outfit.day !== day)
WithoutDayKeepsAll(plan, day) == plan
WithoutDay(plan, day) ==
  SelectSeqBy(plan, {o \in Range(plan) : o.day # day})

\* the outfits table answers the insert: .insert(newOutfits).select(); the
\* plan is set (weekly) or merged (one day), the toast shown, the guard released
InsertReturn(c) ==
  /\ calls[c].pc = "insert"
  /\ ~MicrotaskPending
  /\ \E reply \in StoreReplies :
       IF reply = "error"
       THEN /\ calls' = [calls EXCEPT ![c] =
                 [@ EXCEPT !.pc = "done", !.insertError = TRUE,
                           !.toasts = Append(@, FailureToast(calls[c].kind))]]
            /\ UNCHANGED <<store, weeklyOutfits>>
       ELSE LET data == InsertedRows(c, calls[c].newOutfits)
            IN  /\ store' = store \cup Range(data)
                /\ weeklyOutfits' =
                     IF calls[c].kind = "weekly"
                     THEN data
                     ELSE IF Len(data) > 0
                          THEN WithoutDay(weeklyOutfits, calls[c].day) \o <<data[1]>>
                          ELSE weeklyOutfits
                /\ calls' = [calls EXCEPT ![c] =
                     [@ EXCEPT !.pc = "done",
                               !.toasts = IF calls[c].kind = "weekly"
                                          THEN Append(@, ToastWeeklyDone)
                                          ELSE IF Len(data) > 0
                                               THEN Append(@, ToastDayDone)
                                               ELSE @]]
  /\ ReleaseGuard
  /\ UNCHANGED <<now, user, clothingItems, suggestionCache, localStorage,
                 pendingLoads, apiKey>>
  /\ UNCHANGED <<sourceVars, lastWrite, matcherRun, peer>>

\* ------------------------------------------------- the rest of the provider
\* the effect that loads the cache of the owner who signed in: the entries
\* of the stored array that have not expired, and the array stored back when
\* some had
ValidCacheEntries(parsedCache, t) ==
  SelectSeqBy(parsedCache,
              {e \in Range(parsedCache) : IsFresh(e.timestamp, t)})

LoadCacheEffect(storage, u, t) ==
  IF u # NoUser /\ storage[u].present
     /\ Len(ValidCacheEntries(storage[u].value, t)) < Len(storage[u].value)
  THEN [storage EXCEPT ![u] = StoredItem(ValidCacheEntries(storage[u].value, t))]
  ELSE storage

\* the cache after the load effect: setSuggestionCache(validCacheEntries) when
\* the key is there, and the cache that was in memory otherwise
CacheAfterLoad(storage, u, cache, t) ==
  IF u # NoUser /\ storage[u].present
  THEN ValidCacheEntries(storage[u].value, t)
  ELSE cache

\* useAuth() reports another user (sign-in, sign-out, switch): the wardrobe of
\* that owner is loaded, the cache effects run (load, save with the cache of
\* this render, save again after setSuggestionCache), loadSavedOutfits starts
SetUser(u, items) ==
  /\ u # user
  /\ ~MicrotaskPending
  /\ user' = u
  /\ clothingItems' = IF u = NoUser THEN <<>> ELSE items
  /\ LET loaded == LoadCacheEffect(localStorage, u, now)
         newCache == CacheAfterLoad(localStorage, u, suggestionCache, now)
         saved == SaveCacheEffect(loaded, u, suggestionCache)
     IN  /\ suggestionCache' = newCache
         /\ localStorage' = SaveCacheEffect(saved, u, newCache)
  /\ weeklyOutfits' = IF u = NoUser THEN <<>> ELSE weeklyOutfits
  /\ pendingLoads' = IF u = NoUser THEN pendingLoads ELSE pendingLoads \cup {u}
  /\ UNCHANGED <<now, store, generationInProgress, isGenerating, apiKey, calls>>
  /\ UNCHANGED <<sourceVars, lastWrite, matcherRun, peer>>

\* the select of loadSavedOutfits answers: the rows of that owner become the plan
LoadSavedOutfitsReturn(o) ==
  /\ o \in pendingLoads
  /\ ~MicrotaskPending
  /\ pendingLoads' = pendingLoads \ {o}
  /\ \E reply \in StoreReplies :
       IF reply = "error"
       THEN UNCHANGED weeklyOutfits
       ELSE weeklyOutfits' \in
              SelectOrderedByDay({r \in store : r.user_id = o}, DaysAscending)
  /\ UNCHANGED <<now, user, clothingItems, store, generationInProgress,
                 isGenerating, suggestionCache, localStorage, apiKey, calls>>
  /\ UNCHANGED <<sourceVars, lastWrite, matcherRun, peer>>

\* resetCache: the cache is emptied and the key of the owner removed
StorageAfterResetKeepsKey(ls, u) == ls

\* localStorage.removeItem of the key of the signed-in user
StorageAfterReset(ls, u) ==
  IF u # NoUser THEN [ls EXCEPT ![u] = NoItem] ELSE ls

resetCache ==
  /\ ~MicrotaskPending
  /\ suggestionCache' = <<>>
  /\ localStorage' = StorageAfterReset(localStorage, user)
  /\ UNCHANGED <<now, user, clothingItems, store, weeklyOutfits,
                 generationInProgress, isGenerating, pendingLoads, apiKey, calls>>
  /\ UNCHANGED <<sourceVars, lastWrite, matcherRun, peer>>

\* half of the validity window passes
Tick ==
  /\ ~MicrotaskPending
  /\ now + CACHE_DURATION \div 2 <= MaxNow
  /\ now' = now + CACHE_DURATION \div 2
  /\ UNCHANGED <<user, clothingItems, store, weeklyOutfits, generationInProgress,
                 isGenerating, suggestionCache, localStorage, pendingLoads, apiKey, calls>>
  /\ UNCHANGED <<sourceVars, lastWrite, matcherRun, peer>>

\* a step of an invocation that is running
RunStep(c) ==
  \/ GenerateOutfitForDay(c)
  \/ SuggestionsReturn(c)
  \/ DeleteReturn(c)
  \/ InsertReturn(c)

\* the days the regeneration is asked for
RegenDays == {"monday", "wednesday"}

\* one owner stays signed in and presses the two buttons
Next ==
  \/ \E c \in CallIds : generateWeeklyOutfits(c)
  \/ \E c \in CallIds : \E day \in RegenDays : regenerateOutfitForDay(c, day)
  \/ \E c \in CallIds : GenerateOutfitForDay(c)
  \/ \E c \in CallIds : SuggestionsReturn(c)
  \/ \E c \in CallIds : DeleteReturn(c)
  \/ \E c \in CallIds : InsertReturn(c)
  \/ \E o \in Owners : LoadSavedOutfitsReturn(o)

Spec == Init /\ [][Next]_vars

\* the wardrobe the owner has after signing in again
CacheWardrobes == {<<ItemU1, ItemB1>>}
\* the day the regeneration is asked for
CacheDays == {"monday"}

\* one owner over two days: signs out and in again, regenerates a day, resets
\* the cache, while time passes
CacheNext ==
  \/ \E c \in CallIds : \E day \in CacheDays : regenerateOutfitForDay(c, day)
  \/ \E c \in CallIds : GenerateOutfitForDay(c)
  \/ \E c \in CallIds : SuggestionsReturn(c)
  \/ \E c \in CallIds : DeleteReturn(c)
  \/ \E c \in CallIds : InsertReturn(c)
  \/ \E u \in {"u1", NoUser} : \E items \in CacheWardrobes : SetUser(u, items)
  \/ \E o \in Owners : LoadSavedOutfitsReturn(o)
  \/ resetCache
  \/ Tick

CacheInit ==
  /\ Init
  /\ clothingItems \in CacheWardrobes
  /\ store = {}

CacheSpec == CacheInit /\ [][CacheNext]_vars

\* ------------------------------------------- the suggestion source by itself
\* the timer trackRequest has set is due
TimerIsDue ==
  requestTracker.resetTimer # NoTimer /\ now >= requestTracker.resetTimer

\* the callback of the timer runs, before the other tasks of that time
ResetTimerFires ==
  /\ TimerIsDue
  /\ requestTracker' = TimerCallback(requestTracker)
  /\ UNCHANGED <<now, apiKey, externalCalls, sourceCalls, providerVars,
                 matcherRun, peer>>

\* a caller asks getOutfitSuggestions for the matches of a seed: the function
\* runs up to its first await
SourceRequest(s, item) ==
  /\ sourceCalls[s].pc \in {"idle", "done"}
  /\ ~TimerIsDue
  /\ LET entry == SourceEntry(requestTracker, now, apiKey)
     IN  /\ requestTracker' = entry.tracker
         /\ externalCalls' = IF entry.path = "fetch"
                             THEN RecordExternalCall(externalCalls, now)
                             ELSE externalCalls
         /\ sourceCalls' = [sourceCalls EXCEPT ![s] =
               [IdleSourceCall EXCEPT !.pc = "pending", !.item = item,
                                      !.path = entry.path]]
  /\ UNCHANGED <<now, apiKey, providerVars, matcherRun, peer>>

\* the fetch settles, or the timer of the mock response fires: the promise
\* of getOutfitSuggestions settles
SourceSettle(s) ==
  /\ sourceCalls[s].pc = "pending"
  /\ \E reply \in IF sourceCalls[s].path = "fetch"
                  THEN EndpointReplies(sourceCalls[s].item)
                  ELSE {NoReply} :
       \E result \in SourceSettles(sourceCalls[s].item, sourceCalls[s].path, reply) :
          sourceCalls' = [sourceCalls EXCEPT ![s] =
            [@ EXCEPT !.pc = "done", !.reply = reply, !.result = result,
                      !.settledAt = now]]
  /\ UNCHANGED <<now, apiKey, requestTracker, externalCalls, providerVars,
                 matcherRun, peer>>

\* setGeminiApiKey: the user stores a key
setGeminiApiKey ==
  /\ ~apiKey
  /\ ~MicrotaskPending
  /\ apiKey' = TRUE
  /\ UNCHANGED <<now, sourceVars, providerVars, matcherRun, peer>>

\* half of the rate window passes; a timer that is due has fired before.
\* The calls older than the window are dropped from the log.
SourceTick ==
  /\ ~TimerIsDue
  /\ now + RATE_WINDOW \div 2 <= MaxSourceNow
  /\ now' = now + RATE_WINDOW \div 2
  /\ externalCalls' = ForgetExternalCalls(externalCalls, now')
  /\ UNCHANGED <<apiKey, requestTracker, sourceCalls, providerVars, matcherRun, peer>>

\* the seeds the callers ask about
SourceSeeds == {ItemU1}

SourceNext ==
  \/ \E s \in SourceCallIds : \E item \in SourceSeeds : SourceRequest(s, item)
  \/ \E s \in SourceCallIds : SourceSettle(s)
  \/ ResetTimerFires
  \/ setGeminiApiKey
  \/ SourceTick

SourceSpecInit ==
  /\ Init
  /\ clothingItems = <<ItemU1, ItemB1>>
  /\ store = {}

SourceSpec == SourceSpecInit /\ [][SourceNext]_vars

\* no key is stored: the callers ask about seeds of either type, of every
\* color and category the mock generator tells apart, and get its result
MockNext ==
  \/ \E s \in SourceCallIds :
        \E type \in {"upper", "bottom"} :
           \E categoryId \in {T_cat1, T_cat4, T_cat5, T_cat6} :
              \E color \in {T_000000, T_FFFFFF, T_0000FF, T_black, T_beige} :
                 SourceRequest(s, [id |-> "M1", type |-> type,
                                   categoryId |-> categoryId, color |-> color])
  \/ \E s \in SourceCallIds : SourceSettle(s)

MockSpec == SourceSpecInit /\ [][MockNext]_vars

\* ------------------------------------------ a second provider of the owner
\* generateWeeklyOutfits of the second provider up to its delete: its own
\* guard is tested and set, the seven days are built from the wardrobe
PeerGenerateWeeklyOutfits ==
  /\ peer.pc = "idle"
  /\ ~MicrotaskPending
  /\ user # NoUser
  /\ ~peer.generationInProgress
  /\ LET upperItems == getItemsByType(clothingItems, "upper")
         bottomItems == getItemsByType(clothingItems, "bottom")
     IN  /\ Len(upperItems) > 0 /\ Len(bottomItems) > 0
         /\ \E i \in 1..Len(upperItems) : \E j \in 1..Len(bottomItems) :
               peer' = [pc |-> "delete", generationInProgress |-> TRUE,
                        user |-> user,
                        newOutfits |->
                          [k \in 1..Len(DAYS_OF_WEEK) |->
                             Outfit(upperItems[i], bottomItems[j],
                                    DAYS_OF_WEEK[k], user)]]
  /\ UNCHANGED <<now, apiKey, sourceVars, providerVars, matcherRun>>

\* the table answers the delete of the second provider
PeerDeleteReturn ==
  /\ peer.pc = "delete"
  /\ ~MicrotaskPending
  /\ \E reply \in StoreReplies :
       IF reply = "error"
       THEN /\ peer' = [peer EXCEPT !.pc = "done", !.generationInProgress = FALSE]
            /\ UNCHANGED store
       ELSE /\ store' = {r \in store : r.user_id # peer.user}
            /\ peer' = [peer EXCEPT !.pc = "insert"]
  /\ UNCHANGED <<now, apiKey, sourceVars, matcherRun, lastWrite, user,
                 clothingItems, weeklyOutfits, generationInProgress,
                 isGenerating, suggestionCache, localStorage, pendingLoads, calls>>

\* the table answers the insert of the second provider
PeerInsertReturn ==
  /\ peer.pc = "insert"
  /\ ~MicrotaskPending
  /\ \E reply \in StoreReplies :
       IF reply = "error"
       THEN UNCHANGED store
       ELSE store' = store \cup Range(InsertedRows(MaxCalls + 1, peer.newOutfits))
  /\ peer' = [peer EXCEPT !.pc = "done", !.generationInProgress = FALSE]
  /\ UNCHANGED <<now, apiKey, sourceVars, matcherRun, lastWrite, user,
                 clothingItems, weeklyOutfits, generationInProgress,
                 isGenerating, suggestionCache, localStorage, pendingLoads, calls>>

\* two providers of one owner share the outfits table
SessionNext ==
  \/ Next
  \/ PeerGenerateWeeklyOutfits
  \/ PeerDeleteReturn
  \/ PeerInsertReturn

SessionSpec == Init /\ [][SessionNext]_vars

\* the engine of an owner who stores an API key at some time: the replies of
\* the external endpoint reach the cache and the matcher
KeyNext ==
  \/ Next
  \/ setGeminiApiKey

KeySpec == CacheInit /\ [][KeyNext]_vars

\* ------------------------------------------------------ the matcher by itself
\* an item whose color is kept as a name
ItemB3 == [id |-> "B3", type |-> "bottom", categoryId |-> T_cat4, color |-> T_blue]

\* an item with a subcategory, and the names createMappings gives the
\* subcategories
ItemB4 ==
  [id |-> "B4", type |-> "bottom", categoryId |-> T_cat4, color |-> T_0000FF,
   subcategoryId |-> <<"s","u","b","-","1">>]

subcategoryMapping == [id \in {<<"s","u","b","-","1">>} |-> <<"S","k","i","n","n","y">>]

\* the suggestions findMatchingItems is given: of either type, with or
\* without a category and a color, and some with a subcategory
MatcherSuggestions ==
  {Suggestion(type, category, color) :
     type \in {"upper", "bottom"},
     category \in {Absent, T_Jeans, T_TShirt},
     color \in {Absent, T_blue}}
  \cup {[type |-> "bottom", category |-> T_Jeans, color |-> Absent,
          subcategory |-> subcategory] :
           subcategory \in {<<"B","o","o","t","c","u","t">>, <<"s","k","i","n">>}}

MatcherSuggestionLists ==
  UNION {[1..n -> MatcherSuggestions] : n \in 0..MaxSuggestions}

\* the pools of items it is given: of one type, and mixed
MatcherPools ==
  {<<>>, <<ItemU1>>, <<ItemB1>>, <<ItemU1, ItemB1>>, <<ItemB3, ItemU1>>,
   <<ItemU1, ItemB1, ItemU2, ItemB3>>, <<ItemB4>>, <<ItemU1, ItemB4>>}

\* findMatchingItems is applied to the arguments and returns
ApplyFindMatchingItems ==
  /\ matcherRun.pc = "called"
  /\ \E result \in findMatchingItems(matcherRun.suggestions,
                                      matcherRun.availableItems) :
       matcherRun' = [matcherRun EXCEPT !.pc = "returned", !.result = result]
  /\ UNCHANGED <<now, apiKey, sourceVars, providerVars, peer>>

MatcherNext == ApplyFindMatchingItems

MatcherInit ==
  /\ ProviderInit
  /\ clothingItems = <<ItemU1, ItemB1>>
  /\ store = {}
  /\ SourceInit
  /\ peer = IdlePeer
  /\ \E suggestions \in MatcherSuggestionLists : \E availableItems \in MatcherPools :
       matcherRun = [pc |-> "called", suggestions |-> suggestions,
                     availableItems |-> availableItems, result |-> <<>>]

MatcherSpec == MatcherInit /\ [][MatcherNext]_vars

\* the wardrobe of an owner
WardrobeOf(u) ==
  IF u = "u1" THEN <<ItemU1, ItemB1>>
  ELSE IF u = "u2" THEN <<ItemU2, ItemB2>>
  ELSE <<>>

\* two owners use one client in turn: one signs out, the other signs in,
\* each regenerates a day
OwnerNext ==
  \/ \E c \in CallIds : \E day \in CacheDays : regenerateOutfitForDay(c, day)
  \/ \E c \in CallIds : GenerateOutfitForDay(c)
  \/ \E c \in CallIds : SuggestionsReturn(c)
  \/ \E c \in CallIds : DeleteReturn(c)
  \/ \E c \in CallIds : InsertReturn(c)
  \/ \E u \in Owners \cup {NoUser} :
        (u = NoUser \/ user = NoUser) /\ SetUser(u, WardrobeOf(u))
  \/ \E o \in Owners : LoadSavedOutfitsReturn(o)

OwnerInit ==
  /\ Init
  /\ clothingItems = WardrobeOf(user)
  /\ store = {}

OwnerSpec == OwnerInit /\ [][OwnerNext]_vars

\* =================================================================== claims
\* an invocation holds the guard: it passed the test and has not returned
Active(c) == calls[c].pc \in {"day", "suggest", "delete", "insert"}

\* the step in which an invocation is made, and a step an invocation takes
Arrives(c) == calls[c].pc = "idle" /\ calls'[c].pc # "idle"
Steps(c) == calls'[c] # calls[c]

\* an invocation returns at once with the in-progress notice and nothing else
\* happens: no delete, no insert, the plan, the guard and the other
\* invocations are as they were
RejectedAtOnce(c) ==
  /\ calls'[c].pc = "done"
  /\ calls'[c].toasts = <<ToastInProgress>>
  /\ store' = store
  /\ weeklyOutfits' = weeklyOutfits
  /\ generationInProgress' = TRUE
  /\ \A b \in CallIds \ {c} : calls'[b] = calls[b]

\* C1: at most one weekly generation is ever active, and a generateWeeklyPlan
\* call of a signed-in owner that arrives while a weekly run is active returns
\* at once with "Generation in progress", leaving the Outfit store, the plan
\* and the active run untouched.
C1_WeeklyMutualExclusion ==
  /\ [](Cardinality({c \in CallIds : Active(c) /\ calls[c].kind = "weekly"}) <= 1)
  /\ [][\A c \in CallIds :
          ( /\ Arrives(c)
            /\ calls'[c].kind = "weekly"
            /\ user # NoUser
            /\ \E b \in CallIds : Active(b) /\ calls[b].kind = "weekly" )
          => RejectedAtOnce(c)]_vars

C1_Witness ==
  \E b, c \in CallIds :
     /\ Active(b) /\ calls[b].kind = "weekly"
     /\ calls[c].kind = "weekly" /\ calls[c].pc = "done"
     /\ calls[c].toasts = <<ToastInProgress>>

\* C2: the guard is shared: no two runs of any kind are ever active together,
\* and a request of a signed-in owner that arrives while a run of the other
\* kind, or another regeneration, is active is rejected at once without
\* touching the Outfit store.
C2_SharedGuard ==
  /\ [](Cardinality({c \in CallIds : Active(c)}) <= 1)
  /\ [][\A c \in CallIds :
          ( /\ Arrives(c)
            /\ user # NoUser
            /\ \E b \in CallIds :
                  /\ Active(b)
                  /\ calls[b].kind = "day" \/ calls'[c].kind = "day" )
          => RejectedAtOnce(c)]_vars

C2_Witness ==
  \E b, c \in CallIds :
     /\ Active(b) /\ calls[b].kind = "weekly"
     /\ calls[c].kind = "day" /\ calls[c].pc = "done"
     /\ calls[c].toasts = <<ToastInProgress>>

\* the awaited suggestion and persistence calls of a run eventually return:
\* weak fairness of the run steps, WF_vars(\E c \in CallIds : RunStep(c)),
\* written out as "infinitely often not enabled or infinitely often taken".
\* A run step is enabled exactly when an invocation is active
\* (RunStepEnabledIffActive is an invariant of Spec), which spares the
\* evaluation of ENABLED in every state.
RunStepEnabledIffActive ==
  (ENABLED <<\E c \in CallIds : RunStep(c)>>_vars) <=> (\E c \in CallIds : Active(c))

LiveSpec ==
  /\ Spec
  /\ \/ []<>(\A c \in CallIds : ~Active(c))
     \/ []<><<\E c \in CallIds : RunStep(c)>>_vars

\* C3: every run that acquired the guard eventually releases it, whatever its
\* outcome; the guard is held as long as a run executes; and once it is
\* released a request of a signed-in owner is not rejected as in progress.
C3_GuardReleased ==
  /\ generationInProgress ~> ~generationInProgress
  /\ [](\A c \in CallIds : Active(c) => generationInProgress)
  /\ [][\A c \in CallIds :
          (Arrives(c) /\ user # NoUser /\ ~generationInProgress)
          => calls'[c].toasts # <<ToastInProgress>>]_vars

C3_Witness ==
  \E b, c \in CallIds :
     /\ calls[b].pc = "done" /\ calls[b].deleteError
     /\ Active(c)

\* C4: generateWeeklyPlan on a wardrobe without an upper or without a bottom
\* item reports the insufficient wardrobe ("Incomplete wardrobe", or "Not
\* enough clothing items" when the wardrobe is empty) and returns: the Outfit
\* store, the plan and the cache are as before, nothing is awaited.
C4_InsufficientWardrobe ==
  [][\A c \in CallIds :
       ( /\ Arrives(c)
         /\ calls'[c].kind = "weekly"
         /\ user # NoUser
         /\ ~generationInProgress
         /\ \/ \A i \in 1..Len(clothingItems) : clothingItems[i].type # "upper"
            \/ \A i \in 1..Len(clothingItems) : clothingItems[i].type # "bottom" )
       => /\ calls'[c].pc = "done"
          /\ calls'[c].toasts \in {<<ToastIncomplete>>, <<ToastNoItems>>}
          /\ calls'[c].toasts = <<ToastNoItems>> <=> clothingItems = <<>>
          /\ store' = store
          /\ weeklyOutfits' = weeklyOutfits
          /\ suggestionCache' = suggestionCache
          /\ ~generationInProgress']_vars

C4_Witness ==
  \E c \in CallIds :
     /\ calls[c].kind = "weekly" /\ calls[c].pc = "done"
     /\ calls[c].toasts = <<ToastIncomplete>>
     /\ store # {}

\* the entries of a plan for the days other than `day`, in their order
OtherDayEntries(plan, day) ==
  SelectSeqBy(plan, {e \in Range(plan) : e.day # day})

\* C5: no step of regenerateDay(d) changes a row of the Outfit store other
\* than the owner's row for d, or an entry of the plan for another day; it
\* inserts at most one row, and that row is for d.
C5_RegenerateChangesOneDay ==
  [][\A c \in CallIds :
       (calls[c].kind = "day" /\ Steps(c))
       => /\ {r \in store : ~(r.user_id = calls[c].user /\ r.day = calls[c].day)}
               = {r \in store' : ~(r.user_id = calls[c].user /\ r.day = calls[c].day)}
          /\ Cardinality(store' \ store) <= 1
          /\ OtherDayEntries(weeklyOutfits', calls[c].day)
               = OtherDayEntries(weeklyOutfits, calls[c].day)]_vars

C5_Witness ==
  \E c \in CallIds :
     /\ calls[c].kind = "day" /\ calls[c].pc = "done"
     /\ ToastDayDone \in Range(calls[c].toasts)
     /\ \E r \in store : r.user_id = calls[c].user /\ r.day # calls[c].day
     /\ \E i \in 1..Len(weeklyOutfits) : weeklyOutfits[i].day # calls[c].day

\* C6: the Outfit store never holds two rows for one (owner, day), and the
\* plan never holds two entries for one day.
C6_DayUniqueness ==
  /\ \A r1, r2 \in store :
        (r1.user_id = r2.user_id /\ r1.day = r2.day) => r1 = r2
  /\ \A i, j \in 1..Len(weeklyOutfits) :
        weeklyOutfits[i].day = weeklyOutfits[j].day => i = j

C6_Witness ==
  \E c \in CallIds :
     /\ calls[c].kind = "day" /\ calls[c].pc = "done"
     /\ ToastDayDone \in Range(calls[c].toasts)
     /\ \E i, j \in 1..Len(weeklyOutfits) :
           /\ weeklyOutfits[i].id[1] = 0
           /\ weeklyOutfits[j].id[1] = c

\* C7: a weekly run touches the Outfit store only after all seven days are
\* built and never touches a row of another owner; when it reports success
\* the owner's rows are exactly the seven new ones and the plan is those rows.
C7_WeeklyReplace ==
  [][\A c \in CallIds :
       (calls[c].kind = "weekly" /\ Steps(c))
       => LET owner == calls[c].user
              built == calls[c].newOutfits
              rows == {r \in store' : r.user_id = owner}
          IN  /\ {r \in store : r.user_id # owner} = {r \in store' : r.user_id # owner}
              /\ store' # store =>
                   {built[k].day : k \in 1..Len(built)} = Days
              /\ ToastWeeklyDone \in Range(calls'[c].toasts) =>
                   /\ \A r \in rows :
                        /\ r.id[1] = c
                        /\ \E k \in 1..Len(built) :
                             built[k] = Outfit(r.upper, r.bottom, r.day, r.user_id)
                   /\ Cardinality(rows) = Len(built)
                   /\ Len(weeklyOutfits') = Len(built)
                   /\ \A k \in 1..Len(built) :
                        /\ weeklyOutfits'[k] \in rows
                        /\ built[k] = Outfit(weeklyOutfits'[k].upper,
                                             weeklyOutfits'[k].bottom,
                                             weeklyOutfits'[k].day,
                                             weeklyOutfits'[k].user_id)]_vars

C7_Witness ==
  \E c \in CallIds :
     /\ calls[c].kind = "weekly" /\ calls[c].pc = "done"
     /\ ToastWeeklyDone \in Range(calls[c].toasts)
     /\ \E r \in store : r.user_id # calls[c].user
     /\ \A r \in store : r.user_id = calls[c].user => r.id[1] = c
     /\ Len(weeklyOutfits) = Len(DAYS_OF_WEEK)

\* C8: when the delete or the insert fails the handler shows its error toast
\* and no success toast and leaves the plan as it is; the plan is changed
\* only by the step that reports success.
C8_PersistenceFailure ==
  [][\A c \in CallIds :
       Steps(c)
       => /\ (calls'[c].deleteError \/ calls'[c].insertError) =>
               /\ calls'[c].pc = "done"
               /\ calls'[c].toasts[Len(calls'[c].toasts)]
                    = (IF calls[c].kind = "weekly" THEN ToastWeeklyError
                                                   ELSE ToastDayError)
               /\ Range(calls'[c].toasts) \cap {ToastWeeklyDone, ToastDayDone} = {}
               /\ weeklyOutfits' = weeklyOutfits
          /\ weeklyOutfits' # weeklyOutfits =>
               /\ ~calls'[c].deleteError /\ ~calls'[c].insertError
               /\ Range(calls'[c].toasts) \cap {ToastWeeklyDone, ToastDayDone} # {}
               /\ Range(calls'[c].toasts) \cap {ToastWeeklyError, ToastDayError} = {}]_vars

C8_Witness ==
  \E c \in CallIds :
     /\ calls[c].pc = "done" /\ calls[c].insertError
     /\ weeklyOutfits # <<>>
     /\ \A r \in store : r.user_id # calls[c].user

\* the entries a cache holds for an item
EntriesOf(cache, itemId) ==
  {i \in 1..Len(cache) : cache[i].itemId = itemId}

\* the items generateOutfitForDay of an invocation may draw as the seed
Seeds(c) == Range(calls[c].upperItems) \cup Range(calls[c].bottomItems)

\* the read of generateOutfitForDay is about to happen: the invocation reads
\* the cache of its render at the present time
AboutToRead(c) == calls[c].pc = "day"

C10_LazyEviction ==
  [][\A c \in CallIds :
       ( /\ AboutToRead(c)
         /\ calls'[c].pc = "suggest"
         /\ \E i \in EntriesOf(suggestionCache, calls'[c].selectedItem.id) :
              now > suggestionCache[i].timestamp + CACHE_DURATION )
       => EntriesOf(suggestionCache', calls'[c].selectedItem.id) = {}]_vars

\* the cache holds at most one entry per item id, and the entry of an item
\* is the one the most recent write for that item made
LastWriteHeld ==
  /\ \A i, j \in 1..Len(suggestionCache) :
        suggestionCache[i].itemId = suggestionCache[j].itemId => i = j
  /\ \A i \in 1..Len(suggestionCache) :
        suggestionCache[i] = lastWrite[suggestionCache[i].itemId].entry

\* C11: over cache writes, reads and resets (every step but a change of the
\* signed-in user) the suggestion cache keeps holding at most one entry per
\* item id, with the suggestions and the timestamp of the most recent write
\* for that item.
C11_LastWriteWins ==
  [][(LastWriteHeld /\ user' = user) => LastWriteHeld']_vars

\* an item was written a second time: an invocation read the entry of the
\* first write, the cache holds the entry of the later one
C11_Witness ==
  \E c \in CallIds : \E i \in 1..Len(calls[c].cache) :
     \E j \in EntriesOf(suggestionCache, calls[c].cache[i].itemId) :
        calls[c].cache[i].timestamp < suggestionCache[j].timestamp

\* a cache entry is the one that was written while owner a was signed in
WrittenUnder(e, a) ==
  /\ lastWrite[e.itemId].entry = e
  /\ lastWrite[e.itemId].signedIn = a

\* C12: a cache entry written while owner A was signed in is never returned
\* to a suggestion request made for another owner B, and is never stored in
\* the backing store under the key of B.
C12_OwnerIsolation ==
  /\ \A c \in CallIds : AboutToRead(c) =>
        \A i \in 1..Len(calls[c].cache) : \A a \in Owners \ {calls[c].user} :
           ( /\ WrittenUnder(calls[c].cache[i], a)
             /\ \E item \in Seeds(c) : item.id = calls[c].cache[i].itemId )
           => ~checkSuggestionCache(calls[c].cache, calls[c].cache[i].itemId, now).hit
  /\ \A b \in Owners : localStorage[b].present =>
        \A i \in 1..Len(localStorage[b].value) : \A a \in Owners \ {b} :
           ~WrittenUnder(localStorage[b].value[i], a)

\* nothing is cached in memory, nor under the key of owner o
ClearedFor(o) == suggestionCache = <<>> /\ ~localStorage[o].present

\* nothing is cached in memory, nor under any key of the client
Cleared == \A o \in Owners : ClearedFor(o)

\* invocation c gets the reply of the source and writes it to the cache
WritesCache(c) == calls[c].pc = "suggest" /\ calls'[c].pc # "suggest"

\* C13: resetCache clears every cache entry of the signed-in owner in memory
\* and in the backing store: right after it the cache is empty and the key
\* of the owner is absent; on a client that stores nothing for anyone else
\* this stays so over every step that is not a cache write, and meanwhile
\* every cache read misses.
C13_ResetClears ==
  [][ /\ \A o \in Owners : (resetCache /\ user = o) => ClearedFor(o)'
      /\ (Cleared /\ ~(\E c \in CallIds : WritesCache(c))) => Cleared'
      /\ Cleared' =>
           \A c \in CallIds : AboutToRead(c)' =>
              \A item \in Seeds(c)' :
                 ~checkSuggestionCache(calls'[c].cache, item.id, now').hit
    ]_vars

\* the cache was cleared after a write, and a request is about to read it
C13_Witness ==
  /\ user = "u1" /\ Cleared
  /\ \E id \in ItemIds : lastWrite[id] # NoWrite
  /\ \E c \in CallIds : AboutToRead(c)

\* the external calls of the last RATE_WINDOW seconds
CallsInWindow ==
  SumOfCalls(externalCalls, {x \in DOMAIN externalCalls : x > now - RATE_WINDOW})

\* C14: in any rolling window of 60 seconds at most 60 calls of the external
\* endpoint are attempted.
C14_RateCeiling == CallsInWindow <= MAX_REQUESTS

\* a request is made in slot s in this step
Requests(s) ==
  sourceCalls[s].pc \in {"idle", "done"} /\ sourceCalls'[s].pc = "pending"

\* the request of slot s settles in this step
Settles(s) == sourceCalls[s].pc = "pending" /\ sourceCalls'[s].pc = "done"

\* C15: a request the rate limiter refuses attempts no external call and is
\* not counted, and its caller gets the result of the mock generator: the
\* promise resolves, it does not reject.
C15_RefusedRequest ==
  [][ \A s \in SourceCallIds :
        /\ (Requests(s) /\ ~canMakeRequest(requestTracker, now)) =>
              /\ sourceCalls'[s].path = "rate_limited"
              /\ externalCalls' = externalCalls
              /\ requestTracker' = requestTracker
        /\ (Settles(s) /\ sourceCalls[s].path = "rate_limited") =>
              sourceCalls'[s].result \in MockResults(sourceCalls[s].item)
    ]_vars

\* a refused request has settled
C15_Witness ==
  \E s \in SourceCallIds :
     /\ sourceCalls[s].pc = "done"
     /\ sourceCalls[s].path = "rate_limited"
     /\ sourceCalls[s].result.settled = "resolved"
     /\ requestTracker.requestCount = MAX_REQUESTS

\* the latest request of slot s was answered with this status
AnsweredWith(s, kind) ==
  sourceCalls[s].pc = "done" /\ sourceCalls[s].reply.kind = kind

\* C16: after the endpoint has answered a request with status 429 at time T,
\* a request made at a time in (T, T + 60 s) attempts no external call; one
\* made after T + 60 s, with a key and within the rate limit, attempts it.
C16_CoolDown ==
  [][ \A s \in SourceCallIds :
        (Requests(s) /\ AnsweredWith(s, "status_429")) =>
           /\ ( /\ sourceCalls[s].settledAt < now
                /\ now < sourceCalls[s].settledAt + RATE_WINDOW )
              => ( /\ sourceCalls'[s].path # "fetch"
                   /\ externalCalls' = externalCalls )
           /\ ( /\ now > sourceCalls[s].settledAt + RATE_WINDOW
                /\ apiKey /\ canMakeRequest(requestTracker, now) )
              => sourceCalls'[s].path = "fetch"
    ]_vars

\* C17: after the endpoint has answered a request with status 404, the later
\* requests of the session attempt no external call.
C17_NotFoundBreaker ==
  [][ \A s \in SourceCallIds :
        (Requests(s) /\ AnsweredWith(s, "status_404")) =>
           /\ sourceCalls'[s].path # "fetch"
           /\ externalCalls' = externalCalls
    ]_vars

ValidSuggestions(suggestions) ==
  SelectSeq(suggestions, LAMBDA sg : sg.type # Null /\ IsString(sg.category))

\* C20: of a parsed reply the suggestions that lack a string type or a
\* string category are discarded from the list that is returned, and when
\* none is valid, the empty array included, the result of the mock
\* generator is returned.
C20_ReplyValidation ==
  \A s \in SourceCallIds : AnsweredWith(s, "ok") =>
     LET valid == ValidSuggestions(sourceCalls[s].reply.suggestions)
     IN  IF valid = <<>>
         THEN sourceCalls[s].result \in MockResults(sourceCalls[s].item)
         ELSE sourceCalls[s].result = Resolved(valid)

\* the suggestions the items of a result were selected for: an increasing
\* choice of positions of the list, one for each item of the result
Selections(result, suggestions) ==
  {f \in [1..Len(result) -> 1..Len(suggestions)] :
     \A i, j \in 1..Len(result) : i < j => f[i] < f[j]}

\* C19: findMatchingItems never returns an item of the other slot: each item
\* of the result has the type of the suggestion it was selected for.
C19_NoCrossSlot ==
  matcherRun.pc = "returned" =>
     \E f \in Selections(matcherRun.result, matcherRun.suggestions) :
        \A k \in 1..Len(matcherRun.result) :
           /\ matcherRun.result[k].type = matcherRun.suggestions[f[k]].type
           /\ \E j \in 1..Len(matcherRun.availableItems) :
                 matcherRun.availableItems[j] = matcherRun.result[k]

\* an item was returned from a pool that holds an item of the other slot
\* which the category and the color of the suggestion do not exclude
C19_Witness ==
  /\ matcherRun.pc = "returned"
  /\ matcherRun.result # <<>>
  /\ \E i \in 1..Len(matcherRun.suggestions) :
        \E j \in 1..Len(matcherRun.availableItems) :
           /\ matcherRun.availableItems[j].type # matcherRun.suggestions[i].type
           /\ ItemMatchesAnyType(matcherRun.availableItems[j], matcherRun.suggestions[i])

\* the item passes the type and category tests of the suggestion, and its
\* color label (the name of its hex color) contains the color label of the
\* suggestion, when one is given
PassesByColorLabel(item, suggestion) ==
  /\ ItemMatches(item, [suggestion EXCEPT !.color = Absent])
  /\ Truthy(suggestion.color) =>
        Includes(ToLowerCase(getColorName(item.color)), ToLowerCase(suggestion.color))

\* C21: a candidate passes the color filter iff its resolved color label
\* contains the color label of the suggestion, case-insensitively: for one
\* suggestion, findMatchingItems returns an item iff some candidate passes,
\* and the item it returns passes; so the one bottom of color #0000FF and
\* category Jeans is returned for {type: bottom, category: Jeans, color: blue}.
C21_ColorRule ==
  (matcherRun.pc = "returned" /\ Len(matcherRun.suggestions) = 1) =>
     LET suggestion == matcherRun.suggestions[1]
         passing == {j \in 1..Len(matcherRun.availableItems) :
                       PassesByColorLabel(matcherRun.availableItems[j], suggestion)}
     IN  /\ (matcherRun.result # <<>>) <=> (passing # {})
         /\ \A k \in 1..Len(matcherRun.result) :
               PassesByColorLabel(matcherRun.result[k], suggestion)

\* the subcategory id of the item, or the name of its subcategory, contains
\* the subcategory label of the suggestion
PassesBySubcategory(item, suggestion) ==
  \/ Includes(ToLowerCase(item.subcategoryId), ToLowerCase(suggestion.subcategory))
  \/ /\ item.subcategoryId \in DOMAIN subcategoryMapping
     /\ Includes(ToLowerCase(subcategoryMapping[item.subcategoryId]),
                 ToLowerCase(suggestion.subcategory))

\* C22: for a suggestion that gives a subcategory label, findMatchingItems
\* returns only candidates whose subcategory id or subcategory name
\* contains that label, case-insensitively (of the candidates whose
\* subcategory is known).
C22_SubcategoryRule ==
  (matcherRun.pc = "returned" /\ Len(matcherRun.suggestions) = 1) =>
     LET suggestion == matcherRun.suggestions[1]
     IN  "subcategory" \in DOMAIN suggestion =>
            \A k \in 1..Len(matcherRun.result) :
               "subcategoryId" \in DOMAIN matcherRun.result[k] =>
                  PassesBySubcategory(matcherRun.result[k], suggestion)

\* the rules of the mock generator: the suggestions it may give for a seed
\* of this type, color label and category label
MockRule(type, colorLabel, categoryLabel) ==
  IF type = "upper"
  THEN IF colorLabel \in {T_black, T_white}
       THEN {Suggestion("bottom", category, color) :
               category \in {T_Jeans, T_Pants},
               color \in {T_blue, T_black, T_beige, T_gray}}
       ELSE IF colorLabel = T_blue
       THEN {Suggestion("bottom", T_Jeans, T_blue)}
       ELSE {Suggestion("bottom", T_Pants, T_black)}
  ELSE IF Includes(ToLowerCase(categoryLabel), <<"j","e","a","n","s">>)
       THEN {Suggestion("upper", T_TShirt, T_white)}
       ELSE IF Includes(ToLowerCase(categoryLabel), <<"p","a","n","t","s">>)
       THEN {Suggestion("upper", T_Sweater, T_black)}
       ELSE IF colorLabel = T_black
       THEN {Suggestion("upper", T_TShirt, T_white)}
       ELSE {Suggestion("upper", T_TShirt, T_black)}

\* the request of slot s was served by the mock generator, no key being stored
ServedByMock(s) == sourceCalls[s].pc = "done" /\ sourceCalls[s].path = "no_key"

\* C23: for every seed the mock generator returns exactly one suggestion, of
\* the type opposite to the seed's, chosen by the fixed rules; but for a
\* black or white upper seed the rules allow one suggestion only, so two
\* calls with the same type, color label and category label return the same.
C23_MockRules ==
  \A s \in SourceCallIds : ServedByMock(s) =>
     LET item == sourceCalls[s].item
         colorLabel == getColorName(item.color)
         rule == MockRule(item.type, colorLabel, categoryMapping(item.categoryId))
         suggestions == sourceCalls[s].result.suggestions
     IN  /\ sourceCalls[s].result.settled = "resolved"
         /\ Len(suggestions) = 1
         /\ suggestions[1].type = (IF item.type = "upper" THEN "bottom" ELSE "upper")
         /\ suggestions[1] \in rule
         /\ ~(item.type = "upper" /\ colorLabel \in {T_black, T_white})
               => Cardinality(rule) = 1

\* the mock generator has answered for a blue upper seed
C23_Witness ==
  \E s \in SourceCallIds :
     /\ ServedByMock(s)
     /\ sourceCalls[s].item.type = "upper"
     /\ getColorName(sourceCalls[s].item.color) = T_blue
     /\ sourceCalls[s].result = Resolved(<<Suggestion("bottom", T_Jeans, T_blue)>>)

\* invocation c is in the loop over the days of generateWeeklyOutfits
InWeeklyLoop(c) == calls[c].kind = "weekly" /\ calls[c].pc \in {"day", "suggest"}

\* C24: a weekly run attempts the days one at a time in the order of
\* DAYS_OF_WEEK: the outfits it has built are those of the first days, in
\* order, and the day it works on is the next one. A day produces one outfit
\* and then the next day is started, or the delete after sunday, also when the
\* matcher throws for that day: the outfit is then a random upper with a
\* random bottom.
C24_DaysInOrder ==
  [][ \A c \in CallIds :
        /\ InWeeklyLoop(c)' =>
              /\ calls'[c].dayIdx = Len(calls'[c].newOutfits) + 1
              /\ \A k \in 1..Len(calls'[c].newOutfits) :
                    calls'[c].newOutfits[k].day = DAYS_OF_WEEK[k]
        /\ (InWeeklyLoop(c) /\ calls'[c].pc # calls[c].pc) =>
              \/ calls[c].pc = "day" /\ calls'[c].pc = "suggest"
                   /\ calls'[c].newOutfits = calls[c].newOutfits
              \/ /\ Len(calls'[c].newOutfits) = Len(calls[c].newOutfits) + 1
                 /\ calls'[c].newOutfits[calls[c].dayIdx] \in
                       RandomPairing(DAYS_OF_WEEK[calls[c].dayIdx],
                                     calls[c].upperItems, calls[c].bottomItems,
                                     calls[c].user)
                 /\ IF calls[c].dayIdx < Len(DAYS_OF_WEEK)
                    THEN /\ calls'[c].pc = "day"
                         /\ calls'[c].dayIdx = calls[c].dayIdx + 1
                    ELSE calls'[c].pc = "delete"
    ]_vars

\* a weekly run has built its seven outfits and goes on to the delete, and
\* the cache holds suggestions of this run on which the matcher threw
C24_Witness ==
  \E c \in CallIds :
     /\ calls[c].kind = "weekly" /\ calls[c].pc = "delete"
     /\ Len(calls[c].newOutfits) = Len(DAYS_OF_WEEK)
     /\ \E i \in 1..Len(suggestionCache) :
           /\ suggestionCache[i].timestamp >= 0
           /\ \E k \in 1..Len(suggestionCache[i].suggestions) :
                 ~IsString(ParseAll(suggestionCache[i].suggestions)[k].category)
                 /\ Truthy(ParseAll(suggestionCache[i].suggestions)[k].category)

\* C25: when suggestions for the seed were written to the cache less than
\* 24 hours before a request for it, a write for an earlier day of the same
\* run included, the request is answered from the cache: the suggestion
\* source is not invoked.
C25_CacheFirst ==
  [][ \A c \in CallIds :
        (AboutToRead(c) /\ calls'[c].pc = "suggest") =>
           \A i \in EntriesOf(suggestionCache, calls'[c].selectedItem.id) :
              ~(now - suggestionCache[i].timestamp < CACHE_DURATION)
    ]_vars

\* the rows of the outfits table a select for the owner returns
RowsOf(rows, owner) == {r \in rows : r.user_id = owner}

\* C26: the delete and the insert of a weekly run are two steps: between
\* them the store holds no outfit of the owner, and when the insert then
\* fails the store is left like that and the run shows its error toast.
C26_NonAtomicReplace ==
  [][ \A c \in CallIds : calls[c].kind = "weekly" =>
        /\ (calls[c].pc = "delete" /\ calls'[c].pc # "delete") =>
              \/ calls'[c].deleteError /\ store' = store
              \/ /\ calls'[c].pc = "insert"
                 /\ RowsOf(store', calls[c].user) = {}
                 /\ ToastWeeklyDone \notin Range(calls'[c].toasts)
        /\ (calls[c].pc = "insert" /\ calls'[c].pc = "insert") =>
              RowsOf(store', calls[c].user) = {}
        /\ (calls[c].pc = "insert" /\ calls'[c].insertError) =>
              /\ RowsOf(store', calls[c].user) = {}
              /\ calls'[c].pc = "done"
              /\ calls'[c].toasts[Len(calls'[c].toasts)] = ToastWeeklyError
    ]_vars

\* a weekly run has deleted the plan the owner had, which the provider still
\* shows, and has not inserted the new one
C26_Witness ==
  \E c \in CallIds :
     /\ calls[c].kind = "weekly" /\ calls[c].pc = "insert"
     /\ weeklyOutfits # <<>>
     /\ \A k \in 1..Len(weeklyOutfits) : weeklyOutfits[k].user_id = calls[c].user
     /\ RowsOf(store, calls[c].user) = {}

\* C27: with two providers of one owner generating at the same time, the
\* Outfit store never holds two outfits for the same owner and day.
C27_DayUniquenessAcrossSessions ==
  \A r1 \in store : \A r2 \in store \ {r1} :
     ~(r1.user_id = r2.user_id /\ r1.day = r2.day)

\* a weekly run has left its loop: it is at the delete or the insert, or it
\* returned after them
PastWeeklyLoop(c) ==
  /\ calls[c].kind = "weekly"
  /\ \/ calls[c].pc \in {"delete", "insert"}
     \/ calls[c].pc = "done" /\ Len(calls[c].toasts) > 1

\* C28: a weekly run over a wardrobe with an upper and a bottom builds exactly
\* seven outfits, one for each of monday..sunday, whatever the suggestion
\* source and the matcher did; the plan it built is never partial.
C28_SevenOutfits ==
  \A c \in CallIds :
     PastWeeklyLoop(c) =>
       /\ Len(calls[c].upperItems) > 0 /\ Len(calls[c].bottomItems) > 0
       /\ Len(calls[c].newOutfits) = 7
       /\ {calls[c].newOutfits[k].day : k \in 1..Len(calls[c].newOutfits)}
            = {"monday", "tuesday", "wednesday", "thursday", "friday",
               "saturday", "sunday"}

\* a weekly run of an owner with a stored key returned with success: the seven
\* outfits it built are the plan
C28_Witness ==
  \E c \in CallIds :
     /\ PastWeeklyLoop(c) /\ calls[c].pc = "done"
     /\ ~calls[c].deleteError /\ ~calls[c].insertError
     /\ apiKey
     /\ Len(weeklyOutfits) = 7
     /\ weeklyOutfits = InsertedRows(c, calls[c].newOutfits)

\* C29: every outfit the generator built (matched item, random complement or
\* the random pair of the catch) has an upper of the run's upper pool in its
\* upper slot and a bottom of the run's bottom pool in its bottom slot, and
\* carries the day it was requested for.
C29_SlotsAndDay ==
  \A c \in CallIds : \A k \in 1..Len(calls[c].newOutfits) :
     LET outfit == calls[c].newOutfits[k]
     IN  /\ outfit.upper.type = "upper"
         /\ outfit.upper \in Range(calls[c].upperItems)
         /\ outfit.bottom.type = "bottom"
         /\ outfit.bottom \in Range(calls[c].bottomItems)
         /\ outfit.day = IF calls[c].kind = "weekly"
                         THEN DAYS_OF_WEEK[k] ELSE calls[c].day

\* a regeneration built its outfit although the matcher threw on the
\* suggestions the cache holds for one of the two items
C29_Witness ==
  \E c \in CallIds :
     /\ calls[c].kind = "day" /\ calls[c].pc = "delete"
     /\ Len(calls[c].newOutfits) = 1
     /\ \E i \in 1..Len(suggestionCache) :
           /\ suggestionCache[i].itemId \in
                {calls[c].newOutfits[1].upper.id, calls[c].newOutfits[1].bottom.id}
           /\ \/ FindMatchingItemsThrows(ParseAll(suggestionCache[i].suggestions),
                                          calls[c].upperItems)
              \/ FindMatchingItemsThrows(ParseAll(suggestionCache[i].suggestions),
                                          calls[c].bottomItems)

\* a cache entry for the item that holds a list the mock generator gives for it
MockEntry(e, item) ==
  /\ e.itemId = item.id
  /\ \E m \in mockGeminiResponse(item, getColorName(item.color),
                                  categoryMapping(item.categoryId)) :
        e.suggestions = StringifyAll(m)

\* C30: the list of the mock fallback is cached like an external result:
\* while the cache holds it and it is less than 24 hours old, a request for
\* that item is answered from the cache and makes no external attempt, even
\* when a key has been stored since.
C30_MockEntryServes ==
  [][ \A c \in CallIds :
        (calls[c].pc = "day" /\ calls'[c].pc = "suggest"
           /\ calls'[c].sourcePath = "fetch") =>
           \A i \in 1..Len(suggestionCache) :
              ~( /\ MockEntry(suggestionCache[i], calls'[c].selectedItem)
                 /\ suggestionCache[i].timestamp <= now
                 /\ now - suggestionCache[i].timestamp < CACHE_DURATION )
    ]_vars
====
